---------------------------- MODULE Spec2Model ----------------------------
(***************************************************************************)
(* Model of the to-do backend: the Express middleware chain of index.ts   *)
(* (jwtAuth, the csurf wrapper, the rate limiter), ensureAuth, the web    *)
(* routes of routes/web.ts and the GraphQL resolvers (userResolvers,      *)
(* todoResolvers) over the two mongoose collections User and Todo.        *)
(*                                                                         *)
(* Strings that the code trims, measures or validates are sequences of    *)
(* one-character strings.  Times are milliseconds (Date.now); a JWT's exp *)
(* is in seconds, as jsonwebtoken computes it.  Object ids are positive   *)
(* integers handed out in insertion order.                                *)
(*                                                                         *)
(* A handler runs without preemption up to its next await on the store;   *)
(* the handlers that read and then write (register, toggle) are two       *)
(* steps, and any other request may run between them.                     *)
(***************************************************************************)
EXTENDS Integers, Sequences, FiniteSets, TLC

VARIABLES
    User,       \* the User collection: set of [id, username, password]
    Todo,       \* the Todo collection: set of [id, text, completed, createdAt, userId]
    nextTodoId, \* the next _id the store assigns to a Todo
    now,        \* Date.now(), in milliseconds
    inflight,   \* per request slot: a handler suspended at an await, or Idle
    flips,      \* history: per Todo id, the number of toggles saved
    raced,      \* history: usernames for which two registrations were both
                \* between their findOne and their save
    last        \* the request being answered and its response, until sent

vars == <<User, Todo, nextTodoId, now, inflight, flips, raced, last>>

-----------------------------------------------------------------------------
(* Bounds of the model *)

MaxUsers == 2
MaxTodos == 1
MaxToggles == 2

\* concurrent request slots
Procs == {1, 2}

-----------------------------------------------------------------------------
(* Strings *)

RECURSIVE TrimLeft(_)
TrimLeft(s) ==
    IF s = <<>> THEN s
    ELSE IF Head(s) = " " THEN TrimLeft(Tail(s)) ELSE s

RECURSIVE TrimRight(_)
TrimRight(s) ==
    IF s = <<>> THEN s
    ELSE IF s[Len(s)] = " " THEN TrimRight(SubSeq(s, 1, Len(s) - 1)) ELSE s

\* express-validator's trim() sanitizer: strips whitespace on both sides
Trim(s) == TrimRight(TrimLeft(s))

LowerChars == {"a", "b", "c", "d", "i", "l", "o", "p", "w", "x"}
UpperChars == {"A"}
DigitChars == {"1", "2", "3"}
SymbolChars == {"!"}

CountIn(s, chars) == Cardinality({i \in 1..Len(s) : s[i] \in chars})

MinUsernameLength == 3
MinPasswordLength == 8

\* isStrongPassword({minLength: 8, minLowercase: 1, minUppercase: 1,
\*                   minNumbers: 1, minSymbols: 1})
isStrongPassword(p) ==
    /\ Len(p) >= MinPasswordLength
    /\ CountIn(p, LowerChars) >= 1
    /\ CountIn(p, UpperChars) >= 1
    /\ CountIn(p, DigitChars) >= 1
    /\ CountIn(p, SymbolChars) >= 1

\* mongoose's `required: true` on a String path: rejects only the empty string
RequiredString(s) == Len(s) > 0

-----------------------------------------------------------------------------
(* Inputs *)

Ali == <<"a", "l", "i">>
Bo == <<"b", "o">>
StrongPw == <<"A", "b", "c", "d", "1", "2", "3", "!">>
WeakPw == <<"p", "w">>

\* usernames and passwords a client sends; a form may also send them padded
\* or blank
UsernameInputs == {Ali, Bo}
FormUsernameInputs == UsernameInputs \cup {<<" ">> \o Ali, <<" ">>}
PasswordInputs == {StrongPw, WeakPw}
LoginPasswordInputs == PasswordInputs \cup {<<>>}
TextInputs == {<<>>, <<" ">>, <<"x">>}

\* req.userId / context.userId when no user is authenticated (undefined)
Anonymous == 0

\* an id string that is not a 24-character hex ObjectId
Malformed == -1

IdInputs == (1..MaxTodos) \cup {Malformed}
PageInputs == 0..MaxTodos

-----------------------------------------------------------------------------
(* The User model (models/User.ts): pre-save hook and comparePassword *)

\* the pre-save hook replaces the clear-text password by a one-way hash
HashPassword(p) == <<"$2a$">> \o p

\* user.comparePassword(candidate)
comparePassword(user, candidate) == HashPassword(candidate) = user.password

\* a lookup that finds no one
UserFindOneNone(username) == {}

\* User.findOne({ username }): the first match in insertion order, as a set
\* of at most one document
UserFindOne(username) ==
    LET named == {u \in User : u.username = username}
    IN  {u \in named : \A v \in named : u.id <= v.id}

\* new User({ username, password }).save(): an insert; the store holds no
\* uniqueness constraint on username
UserSave(username, password) ==
    User \cup {[id |-> Cardinality(User) + 1,
                username |-> username,
                password |-> HashPassword(password)]}

-----------------------------------------------------------------------------
(* JSON Web Tokens (jsonwebtoken) and the "token" cookie *)

JWT_SECRET == "your-secret-key"

\* expiresIn: "2h" and "7d", in seconds
WebTokenTTL == 7200
ApiTokenTTL == 604800

NowSeconds == now \div 1000

NoCookie == [kind |-> "none", userId |-> Anonymous, exp |-> 0, sig |-> ""]
GarbageCookie == [kind |-> "garbage", userId |-> Anonymous, exp |-> 0, sig |-> ""]

\* jwt.sign({ userId }, JWT_SECRET, { expiresIn })
JwtSign(userId, ttl) ==
    [kind |-> "jwt", userId |-> userId, exp |-> NowSeconds + ttl, sig |-> JWT_SECRET]

\* jwt.verify(token, JWT_SECRET): throws on a malformed token, a wrong
\* signature, or an exp that is not in the future
JwtVerifies(token) ==
    /\ token.kind = "jwt"
    /\ token.sig = JWT_SECRET
    /\ NowSeconds < token.exp

\* The cookies a client can present.  A token carrying the server's signature
\* is one a login of that user returned: issued just now, or issued one
\* lifetime ago and expiring at this second.  Any other signature is a forgery.
CookieInputs ==
    {NoCookie, GarbageCookie}
    \cup {JwtSign(u.id, WebTokenTTL) : u \in User}
    \cup {[JwtSign(u.id, WebTokenTTL) EXCEPT !.exp = NowSeconds] : u \in User}
    \cup {[JwtSign(u.id, WebTokenTTL) EXCEPT !.sig = "forged-key"] : u \in User}

CookieClass(token) ==
    IF token.kind = "none" THEN "absent"
    ELSE IF token.kind # "jwt" THEN "malformed"
    ELSE IF token.sig # JWT_SECRET THEN "mis-signed"
    ELSE IF ~(NowSeconds < token.exp) THEN "expired"
    ELSE "valid"

\* jwtAuth: sets req.userId from a verifiable token, and always calls next()
jwtAuth(token) ==
    IF token.kind # "none" /\ JwtVerifies(token) /\ token.userId # Anonymous
    THEN token.userId
    ELSE Anonymous

\* a guard that lets every request through
ensureAuthOpen(userId) == TRUE

\* ensureAuth: TRUE when it calls next(), FALSE when it redirects to /login
ensureAuth(userId) == userId # Anonymous

-----------------------------------------------------------------------------
(* csurf with the secret in the "_csrf" cookie, and the rate limiter *)

\* the token req.csrfToken() derives from a secret
CsrfTokenOf(secret) == <<"tok", secret>>

FormAsRendered == [secret |-> "s1", token |-> CsrfTokenOf("s1")]
FieldMissing == [secret |-> "s1", token |-> <<>>]
ForeignToken == [secret |-> "s1", token |-> CsrfTokenOf("s2")]

\* what a request carries: the _csrf cookie and the _csrf form field
CsrfInputs == {FormAsRendered, FieldMissing, ForeignToken}

CsrfVerify(c) == c.secret # "" /\ c.token = CsrfTokenOf(c.secret)

CsrfClass(c) ==
    IF CsrfVerify(c) THEN "valid"
    ELSE IF c.token = <<>> THEN "missing" ELSE "mismatch"

\* a wrapper that skips the check on every path
csrfProtectionOff(path, method, c) == TRUE

\* the wrapper around csrfProtection: skipped for /graphql (and /public,
\* /favicon.ico); csurf itself ignores GET, HEAD and OPTIONS.
\* TRUE when next() is called without an error.
csrfProtection(path, method, c) ==
    IF path = "/graphql" THEN TRUE
    ELSE IF method \in {"GET", "HEAD", "OPTIONS"} THEN TRUE
    ELSE CsrfVerify(c)

\* the cookies of clients without a session, and of clients with one
StrangerCookies == {c \in CookieInputs : jwtAuth(c) = Anonymous}
SessionCookies == {c \in CookieInputs : jwtAuth(c) # Anonymous}

\* A request of a browser form.  A client with a session, or with no cookie,
\* may send any anti-forgery token and may have used up its rate limit (limited:
\* the limiter has counted max requests of this client in the window; a
\* request the CSRF check rejects never reaches the limiter).  The other
\* cookies come with the form as rendered.
FormRequests ==
    [cookie : SessionCookies \cup {NoCookie}, csrf : CsrfInputs, limited : {FALSE}]
    \cup [cookie : SessionCookies \cup {NoCookie}, csrf : {FormAsRendered},
          limited : {TRUE}]
    \cup [cookie : StrangerCookies, csrf : {FormAsRendered}, limited : {FALSE}]

\* a request of an API client: it has no anti-forgery token to send
ApiRequests ==
    [cookie : SessionCookies \cup {NoCookie}, csrf : {FieldMissing}, limited : BOOLEAN]
    \cup [cookie : StrangerCookies, csrf : {FieldMissing}, limited : {FALSE}]

\* the same, of clients that hold no session cookie
AnonFormRequests == {r \in FormRequests : r.cookie = NoCookie}
AnonApiRequests == {r \in ApiRequests : r.cookie = NoCookie}

\* The middleware ahead of the router, in the order index.ts mounts it:
\* the CSRF wrapper, then the rate limiter.  0 when the request reaches the
\* router, else the status it is answered with.
PreRoute(path, method, req) ==
    IF ~csrfProtection(path, method, req.csrf) THEN 403
    ELSE IF req.limited THEN 429
    ELSE 0

-----------------------------------------------------------------------------
(* Responses *)

CsrfErrorMessage == "Form tampering detected (invalid CSRF token). Please refresh and try again."
RateLimitMessage == "Too many requests, please try again later."

\* what a request carried, as the middleware saw it on arrival
Echo(req) ==
    [cookie |-> CookieClass(req.cookie),
     csrf |-> CsrfClass(req.csrf),
     auth |-> jwtAuth(req.cookie)]

\* The record of a request and its response: what it carried, how far it got
\* (branch: the exit it took; ran: its route handler or resolver was invoked;
\* db: the store calls it issued) and what it was answered with.
Response(route, echo, status, msg, branch, ran, db, arg, out) ==
    [route |-> route,
     cookie |-> echo.cookie, csrf |-> echo.csrf, auth |-> echo.auth,
     status |-> status, msg |-> msg, branch |-> branch,
     ran |-> ran, db |-> db, arg |-> arg, out |-> out]

\* the answer of the middleware chain when the request never reaches a handler:
\* the CSRF error handler's 403 page, or the rate limiter's 429
Rejected(route, req, status) ==
    Response(route, Echo(req), status,
             IF status = 403 THEN CsrfErrorMessage ELSE RateLimitMessage,
             IF status = 403 THEN "EBADCSRFTOKEN" ELSE "rate-limit",
             FALSE, 0, <<>>, <<>>)

\* ensureAuth's res.redirect("/login")
RedirectLogin(route, req) ==
    Response(route, Echo(req), 302, "/login", "ensureAuth", FALSE, 0, <<>>, <<>>)

\* A rejected promise that nothing catches in an Express route handler: the
\* process-level handler logs it and the client gets no response.
Unhandled(route, echo, error, db) ==
    Response(route, echo, 0, error, "unhandledRejection", TRUE, db, <<>>, <<>>)

\* a resolver's thrown error, as formatError returns it
GraphQLError(route, echo, msg, branch, db, arg) ==
    Response(route, echo, 200, msg, branch, TRUE, db, arg, <<>>)

NoResponse ==
    [route |-> "", cookie |-> "absent", csrf |-> "missing", auth |-> Anonymous,
     status |-> 0, msg |-> "", branch |-> "", ran |-> FALSE, db |-> 0,
     arg |-> <<>>, out |-> <<>>]

Idle == [pc |-> "idle"]

\* the event loop takes up another handler once the response at hand is sent
Ready == last = NoResponse

\* answer without touching the store
Answer(resp) ==
    /\ last' = resp
    /\ UNCHANGED <<User, Todo, nextTodoId, now, inflight, flips, raced>>

\* res.end(): the response is sent
Sent ==
    /\ last # NoResponse
    /\ last' = NoResponse
    /\ UNCHANGED <<User, Todo, nextTodoId, now, inflight, flips, raced>>

-----------------------------------------------------------------------------
(* Initial states *)

\* after start(): empty collections, no request in flight
Init ==
    /\ User = {}
    /\ Todo = {}
    /\ nextTodoId = 1
    /\ now = 0
    /\ inflight = [p \in Procs |-> Idle]
    /\ flips = [i \in 1..MaxTodos |-> 0]
    /\ raced = {}
    /\ last = NoResponse

-----------------------------------------------------------------------------
(* Registration: POST /register and the register mutation *)

\* registrations between their findOne and their save
Registering(username) ==
    {q \in Procs : inflight[q].pc = "register" /\ inflight[q].username = username}

PendingRegistrations == {q \in Procs : inflight[q].pc = "register"}

\* the handler has passed its duplicate check and awaits user.save()
AwaitSave(p, via, echo, username, password) ==
    /\ Cardinality(User) + Cardinality(PendingRegistrations) < MaxUsers
    /\ inflight' = [inflight EXCEPT ![p] =
                      [pc |-> "register", via |-> via, echo |-> echo,
                       username |-> username, password |-> password]]
    /\ raced' = IF Registering(username) # {} THEN raced \cup {username} ELSE raced
    /\ UNCHANGED <<User, Todo, nextTodoId, now, flips, last>>

\* the validation chain of POST /register: the messages of the failed checks
RegisterErrors(username, password, confirmPassword) ==
    (IF Len(Trim(username)) >= MinUsernameLength THEN <<>>
     ELSE <<"Username must be at least 3 characters">>)
    \o (IF isStrongPassword(password) THEN <<>>
        ELSE <<"Password must be at least 8 chars, include uppercase, lowercase, number & symbol">>)
    \o (IF confirmPassword = password THEN <<>>
        ELSE <<"Passwords do not match">>)

PostRegister(p) ==
    /\ Ready
    /\ inflight[p] = Idle
    /\ \E req \in AnonFormRequests, username \in FormUsernameInputs,
          password \in PasswordInputs, confirmPassword \in PasswordInputs :
         LET pre == PreRoute("/register", "POST", req)
             name == Trim(username)
             errors == RegisterErrors(username, password, confirmPassword)
         IN  IF pre # 0
               THEN Answer(Rejected("POST /register", req, pre))
             ELSE IF errors # <<>>
               THEN Answer(Response("POST /register", Echo(req), 400, errors[1],
                                    "validation", TRUE, 0, <<>>, errors))
             ELSE IF UserFindOne(name) # {}
               THEN Answer(Response("POST /register", Echo(req), 400,
                                    "Username already taken", "duplicate",
                                    TRUE, 1, name, <<>>))
             ELSE AwaitSave(p, "web", Echo(req), name, password)

\* the mutation without its existence check
registerUnchecked(p) ==
    /\ Ready
    /\ inflight[p] = Idle
    /\ \E req \in AnonApiRequests, username \in UsernameInputs,
          password \in PasswordInputs :
         LET pre == PreRoute("/graphql", "POST", req)
         IN  IF pre # 0
               THEN Answer(Rejected("register", req, pre))
             ELSE AwaitSave(p, "api", Echo(req), username, password)

register(p) ==
    /\ Ready
    /\ inflight[p] = Idle
    /\ \E req \in AnonApiRequests, username \in UsernameInputs,
          password \in PasswordInputs :
         LET pre == PreRoute("/graphql", "POST", req)
         IN  IF pre # 0
               THEN Answer(Rejected("register", req, pre))
             ELSE IF UserFindOne(username) # {}
               THEN Answer(GraphQLError("register", Echo(req),
                                        "Username already exists", "duplicate",
                                        1, username))
             ELSE AwaitSave(p, "api", Echo(req), username, password)

\* user.save() completes: the insert, then the redirect or the payload
RegisterSave(p) ==
    /\ Ready
    /\ inflight[p].pc = "register"
    /\ LET r == inflight[p]
       IN  /\ User' = UserSave(r.username, r.password)
           /\ last' = IF r.via = "web"
                      THEN Response("POST /register", r.echo, 302, "/login",
                                    "registered", TRUE, 2, r.username, <<>>)
                      ELSE Response("register", r.echo, 200, "", "registered",
                                    TRUE, 2, r.username,
                                    [id |-> Cardinality(User) + 1,
                                     username |-> r.username])
    /\ inflight' = [inflight EXCEPT ![p] = Idle]
    /\ UNCHANGED <<Todo, nextTodoId, now, flips, raced>>

-----------------------------------------------------------------------------
(* Login and logout *)

\* the validation chain of POST /login
LoginErrors(username, password) ==
    (IF Trim(username) # <<>> THEN <<>> ELSE <<"Username is required">>)
    \o (IF password # <<>> THEN <<>> ELSE <<"Password cannot be blank">>)

PostLogin ==
    /\ Ready
    /\ \E req \in AnonFormRequests, username \in FormUsernameInputs,
          password \in LoginPasswordInputs :
         LET pre == PreRoute("/login", "POST", req)
             errors == LoginErrors(username, password)
             found == UserFindOne(Trim(username))
             valid == \E user \in found : comparePassword(user, password)
         IN  Answer(
               IF pre # 0 THEN Rejected("POST /login", req, pre)
               ELSE IF errors # <<>>
                 THEN Response("POST /login", Echo(req), 400, errors[1],
                               "validation", TRUE, 0, <<>>, errors)
               ELSE IF found = {} \/ ~valid
                 THEN Response("POST /login", Echo(req), 400,
                               "Invalid username or password",
                               IF found = {} THEN "no-user" ELSE "wrong-password",
                               TRUE, 1, <<>>, <<>>)
               ELSE Response("POST /login", Echo(req), 302, "/todos", "logged-in",
                             TRUE, 1, <<>>,
                             JwtSign((CHOOSE user \in found : TRUE).id, WebTokenTTL)))

login ==
    /\ Ready
    /\ \E req \in AnonApiRequests, username \in UsernameInputs,
          password \in LoginPasswordInputs :
         LET pre == PreRoute("/graphql", "POST", req)
             found == UserFindOne(username)
             valid == \E user \in found : comparePassword(user, password)
         IN  Answer(
               IF pre # 0 THEN Rejected("login", req, pre)
               ELSE IF found = {}
                 THEN GraphQLError("login", Echo(req), "User not found", "no-user",
                                   1, <<>>)
               ELSE IF ~valid
                 THEN GraphQLError("login", Echo(req), "Invalid password",
                                   "wrong-password", 1, <<>>)
               ELSE Response("login", Echo(req), 200, "", "logged-in", TRUE, 1,
                             <<>>,
                             JwtSign((CHOOSE user \in found : TRUE).id, ApiTokenTTL)))

PostLogout ==
    /\ Ready
    /\ \E req \in FormRequests :
         LET pre == PreRoute("/logout", "POST", req)
         IN  Answer(
               IF pre # 0 THEN Rejected("POST /logout", req, pre)
               ELSE IF ~ensureAuth(jwtAuth(req.cookie))
                 THEN RedirectLogin("POST /logout", req)
               ELSE Response("POST /logout", Echo(req), 302, "/login", "logged-out",
                             TRUE, 0, <<>>, NoCookie))

-----------------------------------------------------------------------------
(* The Todo collection *)

\* Todo.find({ userId })
TodoFind(userId) == {t \in Todo : t.userId = userId}

\* Todo.findOne({ _id, userId }): at most one document, as a set
TodoFindOne(id, userId) == {t \in Todo : t.id = id /\ t.userId = userId}

\* a delete filtered by _id alone
TodoDeleteOneAnyOwner(id, userId) == {t \in Todo : t.id = id}

\* Todo.deleteOne({ _id, userId }): the documents it removes
TodoDeleteOne(id, userId) == {t \in Todo : t.id = id /\ t.userId = userId}

\* .sort({ createdAt: -1 }): the documents newest first; documents with equal
\* createdAt come in an order the store chooses
SortNewestFirst(docs) ==
    {order \in [1..Cardinality(docs) -> docs] :
        /\ \A i, j \in 1..Cardinality(docs) : i # j => order[i] # order[j]
        /\ \A i, j \in 1..Cardinality(docs) :
              i < j => order[i].createdAt >= order[j].createdAt}

\* cursor.skip(n)
Skip(order, n) == SubSeq(order, n + 1, Len(order))

\* cursor.limit(n): limit(0) is no limit
Limit(order, n) ==
    IF n = 0 \/ n >= Len(order) THEN order ELSE SubSeq(order, 1, n)

\* new Todo({ text, userId }): completed and createdAt from the schema's
\* defaults
NewTodo(text, userId) ==
    [id |-> nextTodoId, text |-> text, completed |-> FALSE,
     createdAt |-> now, userId |-> userId]

\* the TodoPayload a resolver returns
TodoPayload(doc) ==
    [id |-> doc.id, text |-> doc.text, completed |-> doc.completed,
     createdAt |-> doc.createdAt]

\* doc.save() of a new document
TodoInsert(doc, resp) ==
    /\ nextTodoId <= MaxTodos
    /\ Todo' = Todo \cup {doc}
    /\ nextTodoId' = nextTodoId + 1
    /\ flips' = [flips EXCEPT ![doc.id] = 0]
    /\ last' = resp
    /\ UNCHANGED <<User, now, inflight, raced>>

\* why a lookup by id and owner found nothing
Miss(id) == IF \E t \in Todo : t.id = id THEN "not-owner" ELSE "no-such-id"

-----------------------------------------------------------------------------
(* Web routes over the Todo collection (all behind ensureAuth) *)

GetTodos ==
    /\ Ready
    /\ \E req \in FormRequests :
         LET pre == PreRoute("/todos", "GET", req)
             userId == jwtAuth(req.cookie)
         IN  IF pre # 0 THEN Answer(Rejected("GET /todos", req, pre))
             ELSE IF ~ensureAuth(userId)
               THEN Answer(RedirectLogin("GET /todos", req))
             ELSE \E order \in SortNewestFirst(TodoFind(userId)) :
                    Answer(Response("GET /todos", Echo(req), 200, "todos",
                                    "rendered", TRUE, 2, <<>>, order))

PostTodosAdd ==
    /\ Ready
    /\ \E req \in FormRequests, text \in TextInputs :
         LET pre == PreRoute("/todos/add", "POST", req)
             userId == jwtAuth(req.cookie)
         IN  IF pre # 0 THEN Answer(Rejected("POST /todos/add", req, pre))
             ELSE IF ~ensureAuth(userId)
               THEN Answer(RedirectLogin("POST /todos/add", req))
             ELSE IF Trim(text) = <<>>
               THEN \E order \in SortNewestFirst(TodoFind(userId)) :
                      Answer(Response("POST /todos/add", Echo(req), 400,
                                      "Todo text cannot be empty", "validation",
                                      TRUE, 2, text, order))
             ELSE TodoInsert(NewTodo(Trim(text), userId),
                             Response("POST /todos/add", Echo(req), 302, "/todos",
                                      "added", TRUE, 1, text, <<>>))

\* toggles between their findOne and their save
Toggling(id) == {q \in Procs : inflight[q].pc = "toggle" /\ inflight[q].id = id}

\* a handler that sets completed instead of flipping it
AwaitToggleSet(p, via, echo, doc) ==
    /\ flips[doc.id] + Cardinality(Toggling(doc.id)) < MaxToggles
    /\ inflight' = [inflight EXCEPT ![p] =
                      [pc |-> "toggle", via |-> via, echo |-> echo,
                       id |-> doc.id, completed |-> TRUE]]
    /\ UNCHANGED <<User, Todo, nextTodoId, now, flips, raced, last>>

\* The handler found the document, flipped completed on its copy and awaits
\* todo.save().  Of the copy the slot keeps _id and completed, the one path
\* that any request modifies: its other paths are those of the stored
\* document as long as that exists.
AwaitToggle(p, via, echo, doc) ==
    /\ flips[doc.id] + Cardinality(Toggling(doc.id)) < MaxToggles
    /\ inflight' = [inflight EXCEPT ![p] =
                      [pc |-> "toggle", via |-> via, echo |-> echo,
                       id |-> doc.id, completed |-> ~doc.completed]]
    /\ UNCHANGED <<User, Todo, nextTodoId, now, flips, raced, last>>

PostTodosToggle(p) ==
    /\ Ready
    /\ inflight[p] = Idle
    /\ \E req \in FormRequests, id \in IdInputs :
         LET pre == PreRoute("/todos/:id/toggle", "POST", req)
             userId == jwtAuth(req.cookie)
             found == TodoFindOne(id, userId)
         IN  IF pre # 0
               THEN Answer(Rejected("POST /todos/:id/toggle", req, pre))
             ELSE IF ~ensureAuth(userId)
               THEN Answer(RedirectLogin("POST /todos/:id/toggle", req))
             ELSE IF id = Malformed
               THEN Answer(Unhandled("POST /todos/:id/toggle", Echo(req),
                                     "CastError", 1))
             ELSE IF found = {}
               THEN Answer(Response("POST /todos/:id/toggle", Echo(req), 302,
                                    "/todos", Miss(id), TRUE, 1, <<>>, <<>>))
             ELSE AwaitToggle(p, "web", Echo(req), CHOOSE t \in found : TRUE)

PostTodosDelete ==
    /\ Ready
    /\ \E req \in FormRequests, id \in IdInputs :
         LET pre == PreRoute("/todos/:id/delete", "POST", req)
             userId == jwtAuth(req.cookie)
             gone == TodoDeleteOne(id, userId)
         IN  IF pre # 0
               THEN Answer(Rejected("POST /todos/:id/delete", req, pre))
             ELSE IF ~ensureAuth(userId)
               THEN Answer(RedirectLogin("POST /todos/:id/delete", req))
             ELSE IF id = Malformed
               THEN Answer(Unhandled("POST /todos/:id/delete", Echo(req),
                                     "CastError", 1))
             ELSE /\ Todo' = Todo \ gone
                  /\ last' = Response("POST /todos/:id/delete", Echo(req), 302,
                                      "/todos",
                                      IF gone # {} THEN "deleted" ELSE Miss(id),
                                      TRUE, 1, <<>>, <<>>)
                  /\ UNCHANGED <<User, nextTodoId, now, inflight, flips, raced>>

-----------------------------------------------------------------------------
(* GraphQL resolvers over the Todo collection *)

\* a guard that never throws
AuthenticatedAlways(userId) == TRUE

\* a resolver's guard: if (!userId) throw new Error("Authentication required")
Authenticated(userId) == userId # Anonymous

AuthenticationRequired(route, req, arg) ==
    GraphQLError(route, Echo(req), "Authentication required", "no-userId", 0, arg)

todos ==
    /\ Ready
    /\ \E req \in ApiRequests, skip \in PageInputs, take \in PageInputs :
         LET pre == PreRoute("/graphql", "POST", req)
             userId == jwtAuth(req.cookie)
             args == [skip |-> skip, take |-> take]
         IN  IF pre # 0 THEN Answer(Rejected("todos", req, pre))
             ELSE IF ~Authenticated(userId)
               THEN Answer(AuthenticationRequired("todos", req, <<>>))
             ELSE \E order \in SortNewestFirst(TodoFind(userId)) :
                    LET docs == Limit(Skip(order, skip), take)
                    IN  \* .lean() returns plain objects, which have _id and
                        \* no id: d.id.toString() throws on the first document
                        IF docs # <<>>
                        THEN Answer(GraphQLError("todos", Echo(req),
                                                 "Failed to fetch todos",
                                                 "TypeError", 1, args))
                        ELSE Answer(Response("todos", Echo(req), 200, "", "ok",
                                             TRUE, 1, args, <<>>))

addTodo ==
    /\ Ready
    /\ \E req \in ApiRequests, text \in TextInputs :
         LET pre == PreRoute("/graphql", "POST", req)
             userId == jwtAuth(req.cookie)
         IN  IF pre # 0 THEN Answer(Rejected("addTodo", req, pre))
             ELSE IF ~Authenticated(userId)
               THEN Answer(AuthenticationRequired("addTodo", req, <<>>))
             ELSE IF ~RequiredString(text)
               THEN Answer(GraphQLError("addTodo", Echo(req),
                                        "Todo validation failed: text: Path text is required.",
                                        "ValidationError", 0, text))
             ELSE TodoInsert(NewTodo(text, userId),
                             Response("addTodo", Echo(req), 200, "", "added", TRUE,
                                      1, text, TodoPayload(NewTodo(text, userId))))

toggleTodo(p) ==
    /\ Ready
    /\ inflight[p] = Idle
    /\ \E req \in ApiRequests, id \in IdInputs :
         LET pre == PreRoute("/graphql", "POST", req)
             userId == jwtAuth(req.cookie)
             found == TodoFindOne(id, userId)
         IN  IF pre # 0 THEN Answer(Rejected("toggleTodo", req, pre))
             ELSE IF ~Authenticated(userId)
               THEN Answer(AuthenticationRequired("toggleTodo", req, <<>>))
             ELSE IF id = Malformed
               THEN Answer(GraphQLError("toggleTodo", Echo(req), "BSONError",
                                        "BSONError", 0, <<>>))
             ELSE IF found = {}
               THEN Answer(GraphQLError("toggleTodo", Echo(req), "Todo not found",
                                        Miss(id), 1, <<>>))
             ELSE AwaitToggle(p, "api", Echo(req), CHOOSE t \in found : TRUE)

\* todo.save() completes: an update of the one modified path, completed, on
\* the document with the copy's _id; it fails when that document is gone
ToggleSave(p) ==
    /\ Ready
    /\ inflight[p].pc = "toggle"
    /\ LET r == inflight[p]
           route == IF r.via = "web" THEN "POST /todos/:id/toggle" ELSE "toggleTodo"
           stored == {t \in Todo : t.id = r.id}
           updated == {[t EXCEPT !.completed = r.completed] : t \in stored}
       IN  IF stored = {}
           THEN /\ last' = IF r.via = "web"
                           THEN Unhandled(route, r.echo, "DocumentNotFoundError", 2)
                           ELSE GraphQLError(route, r.echo, "DocumentNotFoundError",
                                             "DocumentNotFoundError", 2, <<>>)
                /\ UNCHANGED <<Todo, flips>>
           ELSE /\ Todo' = (Todo \ stored) \cup updated
                /\ flips' = [flips EXCEPT ![r.id] = @ + 1]
                /\ last' = IF r.via = "web"
                           THEN Response(route, r.echo, 302, "/todos", "toggled",
                                         TRUE, 2, <<>>, <<>>)
                           ELSE Response(route, r.echo, 200, "", "toggled", TRUE,
                                         2, <<>>,
                                         TodoPayload(CHOOSE t \in updated : TRUE))
    /\ inflight' = [inflight EXCEPT ![p] = Idle]
    /\ UNCHANGED <<User, nextTodoId, now, raced>>

deleteTodo ==
    /\ Ready
    /\ \E req \in ApiRequests, id \in IdInputs :
         LET pre == PreRoute("/graphql", "POST", req)
             userId == jwtAuth(req.cookie)
             gone == TodoDeleteOne(id, userId)
         IN  IF pre # 0 THEN Answer(Rejected("deleteTodo", req, pre))
             ELSE IF ~Authenticated(userId)
               THEN Answer(AuthenticationRequired("deleteTodo", req, <<>>))
             ELSE IF id = Malformed
               THEN Answer(GraphQLError("deleteTodo", Echo(req), "BSONError",
                                        "BSONError", 0, <<>>))
             ELSE /\ Todo' = Todo \ gone
                  /\ last' = IF gone = {}
                             THEN GraphQLError("deleteTodo", Echo(req),
                                               "Todo not found", Miss(id), 1, <<>>)
                             ELSE Response("deleteTodo", Echo(req), 200, "",
                                           "deleted", TRUE, 1, <<>>, TRUE)
                  /\ UNCHANGED <<User, nextTodoId, now, inflight, flips, raced>>

-----------------------------------------------------------------------------
(* Time *)

\* A millisecond passes.  Only the order of the createdAt values matters, so
\* the clock advances at most once per document inserted.
Tick ==
    /\ Ready
    /\ now < nextTodoId - 1
    /\ now' = now + 1
    /\ UNCHANGED <<User, Todo, nextTodoId, inflight, flips, raced, last>>

-----------------------------------------------------------------------------
(* Specifications *)

\* no handler is suspended at an await
Quiet == \A p \in Procs : inflight[p] = Idle

\* The whole server.  Requests are handled concurrently: a handler suspended
\* at an await lets any other request run.
Next ==
    \/ \E p \in Procs : PostRegister(p)
    \/ \E p \in Procs : register(p)
    \/ \E p \in Procs : RegisterSave(p)
    \/ PostLogin
    \/ login
    \/ PostLogout
    \/ GetTodos
    \/ PostTodosAdd
    \/ \E p \in Procs : PostTodosToggle(p)
    \/ PostTodosDelete
    \/ todos
    \/ addTodo
    \/ \E p \in Procs : toggleTodo(p)
    \/ \E p \in Procs : ToggleSave(p)
    \/ deleteTodo
    \/ Tick
    \/ Sent

Spec == Init /\ [][Next]_vars

\* The server with requests arriving one at a time: a request is taken up
\* only when no handler is suspended.
NextSerial ==
    \/ \E p \in Procs : Quiet /\ PostRegister(p)
    \/ \E p \in Procs : Quiet /\ register(p)
    \/ \E p \in Procs : RegisterSave(p)
    \/ Quiet /\ PostLogin
    \/ Quiet /\ login
    \/ Quiet /\ PostLogout
    \/ Quiet /\ GetTodos
    \/ Quiet /\ PostTodosAdd
    \/ \E p \in Procs : Quiet /\ PostTodosToggle(p)
    \/ Quiet /\ PostTodosDelete
    \/ Quiet /\ todos
    \/ Quiet /\ addTodo
    \/ \E p \in Procs : Quiet /\ toggleTodo(p)
    \/ \E p \in Procs : ToggleSave(p)
    \/ Quiet /\ deleteTodo
    \/ Tick
    \/ Sent

SpecSerial == Init /\ [][NextSerial]_vars

\* The accounts alone: registration and login, handled concurrently.  No
\* other route reads or writes a registration in flight or the User
\* collection.
NextAccounts ==
    \/ \E p \in Procs : PostRegister(p)
    \/ \E p \in Procs : register(p)
    \/ \E p \in Procs : RegisterSave(p)
    \/ PostLogin
    \/ login
    \/ Sent

SpecAccounts == Init /\ [][NextAccounts]_vars

-----------------------------------------------------------------------------
(* Properties *)

WebPostRoutes ==
    {"POST /register", "POST /login", "POST /logout", "POST /todos/add",
     "POST /todos/:id/toggle", "POST /todos/:id/delete"}
ProtectedRoutes ==
    {"GET /todos", "POST /todos/add", "POST /todos/:id/toggle",
     "POST /todos/:id/delete", "POST /logout"}
ApiTaskRoutes == {"todos", "addTodo", "toggleTodo", "deleteTodo"}
ApiRoutes == ApiTaskRoutes \cup {"register", "login"}
ListRoutes == {"GET /todos", "POST /todos/add", "todos"}
InvalidCookies == {"absent", "expired", "mis-signed", "malformed"}

\* a list answered to a request holds only documents of the requesting user
ListsOwnOnly ==
    last.route \in ListRoutes =>
        \A i \in 1..Len(last.out) : last.out[i].userId = last.auth

\* A toggle or delete that names another user's document is answered exactly
\* as one that names no document at all: the redirect to /todos on the web,
\* "Todo not found" on the API.
ForeignAsMissing ==
    last.branch \in {"not-owner", "no-such-id"} =>
        /\ last.out = <<>>
        /\ IF last.route \in ApiTaskRoutes
           THEN last.status = 200 /\ last.msg = "Todo not found"
           ELSE last.status = 302 /\ last.msg = "/todos"

\* a document is changed or removed only by a request of its owner
OwnerOnlyChange ==
    \A t \in Todo : t \notin Todo' => last'.auth = t.userId

\* C1: a user's list requests return only tasks whose owner is that user; a
\* toggle or delete of another user's task id never changes or removes the
\* task and has the outcome of a request for an id that does not exist
OwnerIsolation ==
    [](ListsOwnOnly /\ ForeignAsMissing) /\ [][OwnerOnlyChange]_vars

\* a delete against another user's task was answered; the task is still there
OwnerIsolationWitness ==
    /\ last.route = "deleteTodo"
    /\ last.branch = "not-owner"
    /\ \E t \in Todo : t.userId # last.auth /\ last.auth # Anonymous

\* C2 as stated: every request to a protected web path with an absent,
\* expired, mis-signed or malformed token cookie is redirected to /login
UnauthenticatedRedirected ==
    (last.route \in ProtectedRoutes /\ last.cookie \in InvalidCookies) =>
        last.status = 302 /\ last.msg = "/login" /\ last.branch = "ensureAuth"

\* the request with an invalid cookie is answered ahead of its handler: by
\* the CSRF error page when it is a POST without a valid form token, by the
\* rate limiter's 429 when over the limit, else by the redirect to /login
AnsweredAheadOfHandler ==
    (last.route \in ProtectedRoutes /\ last.cookie \in InvalidCookies) =>
        /\ ~last.ran
        /\ last.db = 0
        /\ last.out = <<>>
        /\ IF last.route \in WebPostRoutes /\ last.csrf # "valid"
           THEN last.status = 403 /\ last.branch = "EBADCSRFTOKEN"
           ELSE \/ last.status = 429 /\ last.branch = "rate-limit"
                \/ last.status = 302 /\ last.msg = "/login"
                   /\ last.branch = "ensureAuth"

\* the step that answers such a request leaves both collections as they were
InvalidCookieNoChange ==
    (last'.route \in ProtectedRoutes /\ last'.cookie \in InvalidCookies) =>
        UNCHANGED <<User, Todo>>

\* C2, amended: a request to a protected web path with an absent, expired,
\* mis-signed or malformed token cookie never reaches its handler and changes
\* nothing; it is redirected to /login unless the CSRF guard (403) or the
\* rate limiter (429), which run first, have already answered it
UnauthenticatedNeverServed ==
    []AnsweredAheadOfHandler /\ [][InvalidCookieNoChange]_vars

\* a task exists and an add with an expired cookie was redirected to /login
UnauthenticatedWitness ==
    /\ last.route = "POST /todos/add"
    /\ last.cookie = "expired"
    /\ last.status = 302 /\ last.msg = "/login"
    /\ Todo # {}

\* what a login route answers when no user has the submitted username
UnknownUserMessage(route) ==
    IF route = "POST /login" THEN "Invalid username or password"
    ELSE "User not found"

\* C3: on the web route and on the API alike, a login with a wrong password
\* fails with the message of a login with an unknown username
LoginFailureIndistinguishable ==
    (last.route \in {"POST /login", "login"}
       /\ last.branch \in {"no-user", "wrong-password"}) =>
        last.msg = UnknownUserMessage(last.route)

\* the form token of a state-changing web request was missing or wrong: the
\* 403 page, and the handler not invoked
ForgeryRejected ==
    (last.route \in WebPostRoutes /\ last.csrf \in {"missing", "mismatch"}) =>
        /\ last.status = 403
        /\ last.msg = CsrfErrorMessage
        /\ ~last.ran
        /\ last.db = 0

\* API requests carry no form token and reach their resolver all the same
ApiExempt ==
    last.route \in ApiRoutes =>
        /\ last.csrf = "missing"
        /\ last.status # 403
        /\ last.branch # "rate-limit" => last.ran

\* the step that answers a forged request changes nothing
ForgeryNoChange ==
    last'.branch = "EBADCSRFTOKEN" => UNCHANGED <<User, Todo>>

\* C4: a state-changing web request whose CSRF token is missing or does not
\* match is answered 403 and has no effect; the API path is exempt and is
\* processed without a token
CsrfGuard ==
    [](ForgeryRejected /\ ApiExempt) /\ [][ForgeryNoChange]_vars

\* a signed-in user's delete of an existing task with a foreign form token
\* was answered 403
CsrfGuardWitness ==
    /\ last.route = "POST /todos/:id/delete"
    /\ last.csrf = "mismatch"
    /\ last.status = 403
    /\ last.auth # Anonymous
    /\ \E t \in Todo : t.userId = last.auth

\* a registration refused as a duplicate names a persisted username and is
\* answered with the entry point's message
DuplicateRefused ==
    last.branch = "duplicate" =>
        /\ \E u \in User : u.username = last.arg
        /\ IF last.route = "register"
           THEN last.msg = "Username already exists"
           ELSE last.status = 400 /\ last.msg = "Username already taken"

NoSharedUsername ==
    \A u, v \in User : u.username = v.username => u = v

\* A registration that is answered: when it succeeded, the username was not
\* persisted before and exactly one user with it has been added; otherwise
\* the users are as they were.
RegistrationStep ==
    last'.route \in {"POST /register", "register"} =>
        IF last'.branch = "registered"
        THEN /\ ~\E u \in User : u.username = last'.arg
             /\ \E u \in User' :
                   /\ u.username = last'.arg
                   /\ u \notin User
                   /\ User' = User \cup {u}
        ELSE User' = User

\* C5: with registrations handled one at a time, registering a persisted
\* username fails with the entry point's message and leaves the users
\* unchanged, registering a new one adds exactly one user with that username,
\* and no two users share a username
RegisterOnceSerial ==
    [](DuplicateRefused /\ NoSharedUsername) /\ [][RegistrationStep]_vars

\* two users are registered and a web registration was refused as a duplicate
RegisterOnceWitness ==
    /\ last.route = "POST /register"
    /\ last.branch = "duplicate"
    /\ Cardinality(User) = 2

\* a task resolver invoked without a user id throws before any store call
NoUserIdRefused ==
    (last.route \in ApiTaskRoutes /\ last.ran /\ last.auth = Anonymous) =>
        /\ last.msg = "Authentication required"
        /\ last.branch = "no-userId"
        /\ last.db = 0
        /\ last.out = <<>>

NoUserIdNoChange ==
    (last'.route \in ApiTaskRoutes /\ last'.auth = Anonymous) =>
        UNCHANGED <<Todo, nextTodoId, flips, inflight>>

\* C6: each of todos, addTodo, toggleTodo and deleteTodo, invoked without a
\* user identifier in the context, fails with "Authentication required"
\* having issued no store call; no task is created, toggled or deleted
AuthenticationRequiredFirst ==
    []NoUserIdRefused /\ [][NoUserIdNoChange]_vars

\* a task exists and an addTodo without a user id was refused
AuthenticationRequiredWitness ==
    /\ last.route = "addTodo"
    /\ last.branch = "no-userId"
    /\ last.msg = "Authentication required"
    /\ Todo # {}

\* completed is false after an even number of toggles and true after an odd
\* number; the toggleTodo payload carries the stored value
CompletedIsParity ==
    /\ \A t \in Todo : t.completed = (flips[t.id] % 2 = 1)
    /\ (last.route = "toggleTodo" /\ last.branch = "toggled") =>
          \E t \in Todo : last.out = TodoPayload(t)

\* a toggle that succeeds flips completed of one document and changes
\* nothing else
ToggleFlipsOnly ==
    last'.branch = "toggled" =>
        \E t \in Todo :
            Todo' = (Todo \ {t}) \cup {[t EXCEPT !.completed = ~t.completed]}

\* C7: with the toggles of a task handled one after the other, a created task
\* is not completed, one toggle makes it completed, a second one returns it to
\* not completed, and a toggle changes only completed
DoubleToggleRoundTrip ==
    []CompletedIsParity /\ [][ToggleFlipsOnly]_vars

\* the second toggle of a task was answered and the task is not completed
DoubleToggleWitness ==
    /\ last.branch = "toggled"
    /\ \E t \in Todo : flips[t.id] = 2 /\ ~t.completed

\* C8: todos(skip, take) answers a signed-in user with the window of take
\* tasks after the first skip of the user's tasks ordered newest first, so
\* that the pages (0, N) and (N, N) are disjoint and together are the first
\* 2N tasks
PagesAreWindows ==
    (last.route = "todos" /\ last.ran /\ last.auth # Anonymous) =>
        (last.arg.take >= 1 =>
            /\ last.msg = ""
            /\ \E order \in SortNewestFirst(TodoFind(last.auth)) :
                 LET window == Limit(Skip(order, last.arg.skip), last.arg.take)
                 IN  /\ Len(last.out) = Len(window)
                     /\ \A i \in 1..Len(window) :
                           last.out[i] = TodoPayload(window[i]))

\* C9: on the web route and on the API alike, a create whose text is empty
\* after trimming is rejected, and no persisted task has an empty or
\* whitespace-only text
BlankTextRejected ==
    /\ (last.route \in {"POST /todos/add", "addTodo"} /\ last.ran
          /\ last.auth # Anonymous /\ Trim(last.arg) = <<>>) =>
            last.branch # "added"
    /\ \A t \in Todo : Trim(t.text) # <<>>

\* C10: two users share a username only after two registrations of that
\* username interleaved, the second passing its existence check before the
\* first had saved
DuplicateOnlyRaced ==
    \A u, v \in User :
        (u # v /\ u.username = v.username) => u.username \in raced

\* two users with one username
DuplicateReached ==
    \E u, v \in User : u # v /\ u.username = v.username

\* C11: once the toggles issued for a task have all been saved, in whatever
\* order their findOne and save steps ran, completed is the value at creation
\* (false) flipped once per saved toggle, and a toggleTodo payload carries the
\* value its save wrote
NoToggleLost ==
    /\ \A t \in Todo :
          Toggling(t.id) = {} => t.completed = (flips[t.id] % 2 = 1)
    /\ (last.route = "toggleTodo" /\ last.branch = "toggled") =>
          \E t \in Todo : last.out = TodoPayload(t)

=============================================================================
